---- MODULE Spec2Model ----
(***************************************************************************)
(* A model of the erdos dataflow core: the write stream                    *)
(* (src/dataflow/stream/write_stream.rs), the time-versioned operator      *)
(* state (src/dataflow/state.rs) and the message codec                     *)
(* (src/communication/message_codec.rs).                                   *)
(***************************************************************************)
EXTENDS Integers, Sequences, FiniteSets, TLC

\* ------------------------------------------------------------------ bounds

\* The coordinate of a timestamp ranges over 0..MaxCoord.
MaxCoord == 1
\* At most MaxEndpoints endpoints are registered on the write stream.
MaxEndpoints == 2
\* At most MaxSends calls of send are made on the write stream.
MaxSends == 2
\* MaxThreads threads call into the default graph.
MaxThreads == 2
\* Operator and stream ids range over 1..MaxIds.
MaxIds == 1

\* -------------------------------------------------------------- timestamps

\* Timestamp::bottom(): precedes every other timestamp.
Bottom == [kind |-> "Bottom", time |-> <<>>]

\* The top timestamp: succeeds every other timestamp.
Top == [kind |-> "Top", time |-> <<>>]

\* Timestamp::new(vec![..]).
Time(v) == [kind |-> "Time", time |-> v]

\* The coordinate vectors of the timestamps sent: one coordinate, as the
\* low watermark Timestamp::new(vec![0]) a stream starts with.
TimeVecs == {<<c>> : c \in 0..MaxCoord}

Timestamps == {Bottom, Top} \cup {Time(v) : v \in TimeVecs}

\* Lexicographic order of two coordinate vectors (Vec<u64>'s Ord).
LexLess(u, v) ==
    \E k \in 0..Len(u) :
        /\ k <= Len(v)
        /\ \A i \in 1..k : u[i] = v[i]
        /\ k < Len(v)
        /\ (k < Len(u) => u[k + 1] < v[k + 1])

TsRank(t) == CASE t.kind = "Bottom" -> 0
               [] t.kind = "Time" -> 1
               [] t.kind = "Top" -> 2

\* a < b on timestamps.
TsLess(a, b) ==
    \/ TsRank(a) < TsRank(b)
    \/ /\ a.kind = "Time"
       /\ b.kind = "Time"
       /\ LexLess(a.time, b.time)

\* a <= b on timestamps.
TsLeq(a, b) == a = b \/ TsLess(a, b)

\* ---------------------------------------------------------------- messages

\* The payload of a data message; send never looks at it.
Payloads == {1}

\* Message::TimestampedData.
TimestampedData(t, d) == [kind |-> "TimestampedData", timestamp |-> t, data |-> d]

\* Message::Watermark.
Watermark(t) == [kind |-> "Watermark", timestamp |-> t, data |-> 0]

Messages ==
    {TimestampedData(t, d) : t \in Timestamps, d \in Payloads}
        \cup {Watermark(t) : t \in Timestamps}

\* The placeholder of a call that carries no message.
NoMessage == [kind |-> "None", timestamp |-> Bottom, data |-> 0]

\* Message::is_top_watermark.
IsTopWatermark(msg) == msg.kind = "Watermark" /\ msg.timestamp = Top

\* ------------------------------------------------------------ write stream

VARIABLES
    pusher,            \* Option<Pusher>: [present, endpoints]
    low_watermark,     \* WriteStream::low_watermark
    stream_closed,     \* WriteStream::stream_closed
    notification_tx,   \* the notifications published on the broadcast channel
    endpoint_rx,       \* per endpoint, the messages it has been handed
    ws_log             \* the calls made on the stream, each with its outcome

VARIABLES
    current_time,      \* TimeVersionedState::current_time
    history_size,      \* TimeVersionedState::history_size
    access_context,    \* TimeVersionedState::access_context
    message_history,   \* BTreeMap<Timestamp, Vec<T>>
    state_history,     \* BTreeMap<Timestamp, S>
    tvs_call,          \* the last call made on the state, with its outcome
    time_is_set,       \* set_current_time was called and the current time is not closed since
    tracked,           \* the timestamps whose entries set_current_time created and no close_time released
    appended,          \* per tracked timestamp, the data appended at it, in call order
    written            \* per tracked timestamp, the last state written at it, an Option

VARIABLES
    status,            \* MessageCodec::status
    msg_metadata,      \* MessageCodec::msg_metadata, an Option
    buf,               \* the decoder's buffer
    wire,              \* the bytes written for the decoder and not yet in its buffer
    frames,            \* per frame written to the wire, whether an encoder wrote it
    fed,               \* every byte appended to the decoder's buffer so far
    decoded,           \* the messages decode has returned so far
    errored,           \* decode has returned an error
    codec_call         \* the last call made on the codec, with its outcome

VARIABLES
    default_graph,     \* the Graph held by the DEFAULT_GRAPH mutex
    pc,                \* per thread, where it is in a call of set
    previous_graph,    \* per thread in set, its local previous_graph
    new_graph,         \* per thread in set, the graph it was called with
    graph_call         \* the last call completed on the default graph, with its outcome

graph_vars == <<default_graph, pc, previous_graph, new_graph, graph_call>>

codec_vars == <<status, msg_metadata, buf, wire, frames, fed, decoded, errored,
                codec_call>>

tvs_vars == <<current_time, history_size, access_context, message_history,
              state_history, tvs_call, time_is_set, tracked, appended, written>>

ws_vars == <<pusher, low_watermark, stream_closed, notification_tx, endpoint_rx, ws_log>>

Endpoints == 1..MaxEndpoints

\* Pusher::new(): a pusher with no endpoint.
NewPusher == [present |-> TRUE, endpoints |-> <<>>]

\* Option::None in the pusher field.
NoPusher == [present |-> FALSE, endpoints |-> <<>>]

\* The elements of a sequence.
Range(s) == {s[i] : i \in 1..Len(s)}

\* WriteStream::new_internal
NewInternal ==
    [pusher |-> NewPusher,
     low_watermark |-> Time(<<0>>),
     stream_closed |-> FALSE,
     notification_tx |-> <<>>,
     endpoint_rx |-> [e \in Endpoints |-> <<>>],
     result |-> "Ok",
     events |-> <<>>]

\* The stream as a record: the fields, the channels it writes to, and the
\* result and the ordered effects of the call in progress.
StreamRecord ==
    [pusher |-> pusher,
     low_watermark |-> low_watermark,
     stream_closed |-> stream_closed,
     notification_tx |-> notification_tx,
     endpoint_rx |-> endpoint_rx,
     result |-> "Ok",
     events |-> <<>>]

\* WriteStream::is_closed
IsClosed == stream_closed

\* Pusher::add_endpoint
PusherAddEndpoint(p, e) == [p EXCEPT !.endpoints = Append(@, e)]

\* WriteStream::add_endpoint: expect() panics when there is no pusher.
AddEndpointResult(s, e) ==
    IF s.pusher.present
    THEN [s EXCEPT !.pusher = PusherAddEndpoint(s.pusher, e),
                   !.events = Append(@, "add_endpoint")]
    ELSE [s EXCEPT !.result = "Panic"]

\* close_stream that sets the flag and keeps the pusher.
CloseStream_KeepsPusher(s) ==
    [s EXCEPT !.stream_closed = TRUE,
              !.events = Append(@, "close_stream")]

\* close_stream that drops the pusher and leaves the flag as it is.
CloseStream_KeepsFlag(s) ==
    [s EXCEPT !.pusher = NoPusher,
              !.events = Append(@, "close_stream")]

\* WriteStream::close_stream
CloseStream(s) ==
    [s EXCEPT !.stream_closed = TRUE,
              !.pusher = NoPusher,
              !.events = Append(@, "close_stream")]

\* update_watermark that takes any watermark, lower ones included.
UpdateWatermark_NoWatermarkCheck(s, msg) ==
    IF msg.kind = "TimestampedData"
    THEN IF TsLess(msg.timestamp, s.low_watermark)
         THEN [s EXCEPT !.result = "TimestampError"]
         ELSE s
    ELSE [s EXCEPT !.low_watermark = msg.timestamp,
                   !.events = Append(@, "low_watermark")]

\* update_watermark that checks watermarks only.
UpdateWatermark_NoDataCheck(s, msg) ==
    IF msg.kind = "TimestampedData"
    THEN s
    ELSE IF TsLess(msg.timestamp, s.low_watermark)
         THEN [s EXCEPT !.result = "TimestampError"]
         ELSE [s EXCEPT !.low_watermark = msg.timestamp,
                        !.events = Append(@, "low_watermark")]

\* update_watermark that compares with <= and so rejects an equal timestamp.
UpdateWatermark_RejectsEqual(s, msg) ==
    IF msg.kind = "TimestampedData"
    THEN IF TsLeq(msg.timestamp, s.low_watermark)
         THEN [s EXCEPT !.result = "TimestampError"]
         ELSE s
    ELSE IF TsLeq(msg.timestamp, s.low_watermark)
         THEN [s EXCEPT !.result = "TimestampError"]
         ELSE [s EXCEPT !.low_watermark = msg.timestamp,
                        !.events = Append(@, "low_watermark")]

\* WriteStream::update_watermark
UpdateWatermark(s, msg) ==
    IF msg.kind = "TimestampedData"
    THEN IF TsLess(msg.timestamp, s.low_watermark)
         THEN [s EXCEPT !.result = "TimestampError"]
         ELSE s
    ELSE IF TsLess(msg.timestamp, s.low_watermark)
         THEN [s EXCEPT !.result = "TimestampError"]
         ELSE [s EXCEPT !.low_watermark = msg.timestamp,
                        !.events = Append(@, "low_watermark")]

\* The close flag set for every watermark.
SendCloseFlag_AnyWatermark(msg) == msg.kind = "Watermark"

\* send: the flag that closes the stream after the fan-out.
SendCloseFlag(msg) == IsTopWatermark(msg)

\* WriteStream::id
StreamId == "id"

\* send: the notification published for the message.
SendNotification(s, msg) ==
    LET n == [type |-> IF msg.kind = "TimestampedData" THEN "SentData" ELSE "SentWatermark",
              id |-> StreamId,
              timestamp |-> msg.timestamp]
    IN [s EXCEPT !.notification_tx = Append(@, n),
                 !.events = Append(@, "notification")]

\* Pusher::send: the message is handed to every endpoint but the failing
\* ones; an error is reported when an endpoint failed.
RECURSIVE PusherSend(_, _, _, _)
PusherSend(s, endpoints, msg, failing) ==
    IF endpoints = <<>>
    THEN s
    ELSE LET e == Head(endpoints)
             s1 == IF e \in failing
                   THEN [s EXCEPT !.result = "IOError"]
                   ELSE [s EXCEPT !.endpoint_rx[e] = Append(@, msg),
                                  !.events = Append(@, "endpoint")]
         IN PusherSend(s1, Tail(endpoints), msg, failing)

\* The match on self.pusher always taking the None arm.
SendFanOut_SkipsPusher(s, msg, failing) == s

\* send: the match on self.pusher.
SendFanOut(s, msg, failing) ==
    IF s.pusher.present
    THEN PusherSend(s, s.pusher.endpoints, msg, failing)
    ELSE s

\* send that publishes the notification after the fan-out.
WriteStreamSend_NotifiesLast(s, msg, failing) ==
    IF s.stream_closed
    THEN [s EXCEPT !.result = "Closed"]
    ELSE LET close_stream == SendCloseFlag(msg)
             s2 == UpdateWatermark(s, msg)
         IN IF s2.result # "Ok"
            THEN s2
            ELSE LET s3 == SendNotification(SendFanOut(s2, msg, failing), msg)
                 IN IF s3.result # "Ok"
                    THEN s3
                    ELSE IF close_stream THEN CloseStream(s3) ELSE s3

\* send that tests the closed flag after the notification.
WriteStreamSend_ClosedCheckLate(s, msg, failing) ==
    LET s1 == SendNotification(s, msg)
    IN IF s.stream_closed
       THEN [s1 EXCEPT !.result = "Closed"]
       ELSE LET close_stream == SendCloseFlag(msg)
                s2 == UpdateWatermark(s1, msg)
            IN IF s2.result # "Ok"
               THEN s2
               ELSE LET s3 == SendFanOut(s2, msg, failing)
                    IN IF s3.result # "Ok"
                       THEN s3
                       ELSE IF close_stream THEN CloseStream(s3) ELSE s3

\* WriteStreamT::send for WriteStream
WriteStreamSend(s, msg, failing) ==
    IF s.stream_closed
    THEN [s EXCEPT !.result = "Closed"]
    ELSE LET close_stream == SendCloseFlag(msg)
             s1 == SendNotification(s, msg)
             s2 == UpdateWatermark(s1, msg)
         IN IF s2.result # "Ok"
            THEN s2
            ELSE LET s3 == SendFanOut(s2, msg, failing)
                 IN IF s3.result # "Ok"
                    THEN s3
                    ELSE IF close_stream THEN CloseStream(s3) ELSE s3

\* One entry of the call log.
Call(op, msg, e, failing, before, after) ==
    [op |-> op,
     msg |-> msg,
     endpoint |-> e,
     failing |-> failing,
     registered |-> Range(before.pusher.endpoints),
     was_closed |-> before.stream_closed,
     result |-> after.result,
     events |-> after.events]

WsCommit(s, call) ==
    /\ pusher' = s.pusher
    /\ low_watermark' = s.low_watermark
    /\ stream_closed' = s.stream_closed
    /\ notification_tx' = s.notification_tx
    /\ endpoint_rx' = s.endpoint_rx
    /\ ws_log' = Append(ws_log, call)
    /\ UNCHANGED <<tvs_vars, codec_vars, graph_vars>>

NumCalls(op) == Cardinality({i \in 1..Len(ws_log) : ws_log[i].op = op})

\* A stream as WriteStream::new leaves it.
WsFresh ==
    /\ pusher = NewInternal.pusher
    /\ low_watermark = NewInternal.low_watermark
    /\ stream_closed = NewInternal.stream_closed
    /\ notification_tx = NewInternal.notification_tx
    /\ endpoint_rx = NewInternal.endpoint_rx
    /\ ws_log = <<>>

\* A call of add_endpoint with the next endpoint.
AddEndpoint ==
    /\ NumCalls("add_endpoint") < MaxEndpoints
    /\ LET e == NumCalls("add_endpoint") + 1
           s == AddEndpointResult(StreamRecord, e)
       IN WsCommit(s, Call("add_endpoint", NoMessage, e, {}, StreamRecord, s))

\* A call of send; the endpoints of `failing` report a transport failure.
Send ==
    /\ NumCalls("send") < MaxSends
    /\ \E msg \in Messages :
         \E failing \in SUBSET Range(pusher.endpoints) :
            LET s == WriteStreamSend(StreamRecord, msg, failing)
            IN WsCommit(s, Call("send", msg, 0, failing, StreamRecord, s))

WsNext == AddEndpoint \/ Send

\* ------------------------------------------------------ time-versioned state

\* The history size ranges over 0..MaxHistory.
MaxHistory == 2
\* The runtime's timestamps are bottom and [1] .. [MaxTime].
MaxTime == 2
\* States (S = usize) range over 0..MaxState; usize::default() is 0.
MaxState == 1
\* Message payloads (T = usize) range over 1..MaxData.
MaxData == 2
\* At most MaxMsgs messages are held in the message history at a time.
MaxMsgs == 2

\* enum AccessContext
AccessContexts == {"Operator", "Callback", "WatermarkCallback"}

TvsTimes == {Bottom} \cup {Time(<<i>>) : i \in 1..MaxTime}

StateVals == 0..MaxState

DefaultState == 0

DataVals == 1..MaxData

\* BTreeMap::new()
EmptyMap == [k \in {} |-> 0]

\* The keys of a map in ascending order (the order a BTreeMap iterates in).
RECURSIVE SortedKeys(_)
SortedKeys(K) ==
    IF K = {}
    THEN <<>>
    ELSE LET m == CHOOSE x \in K : \A y \in K : TsLeq(x, y)
         IN <<m>> \o SortedKeys(K \ {m})

MapRestrict(m, K) == [k \in K |-> m[k]]

\* BTreeMap::split_off(&t), the part it returns: the entries with key >= t.
SplitOff(m, t) == MapRestrict(m, {k \in DOMAIN m : TsLeq(t, k)})

\* BTreeMap::remove
MapRemove(m, t) == MapRestrict(m, DOMAIN m \ {t})

\* BTreeMap::insert
MapInsert(m, t, v) == [k \in DOMAIN m \cup {t} |-> IF k = t THEN v ELSE m[k]]

\* BTreeMap::entry(t).or_default()
EntryOrDefault(m, t, d) == IF t \in DOMAIN m THEN m ELSE MapInsert(m, t, d)

\* BTreeMap::get, as an Option: <<>> is None, <<v>> is Some(v).
MapGet(m, t) == IF t \in DOMAIN m THEN <<m[t]>> ELSE <<>>

\* A double-ended iterator over a sequence after n calls of next_back.
DropBack(seq, n) == SubSeq(seq, 1, IF n >= Len(seq) THEN 0 ELSE Len(seq) - n)

\* Iterator::next_back, as an Option.
NextBack(seq) == IF seq = <<>> THEN <<>> ELSE <<seq[Len(seq)]>>

\* Iterator::next, as an Option.
NextFront(seq) == IF seq = <<>> THEN <<>> ELSE <<seq[1]>>

\* Iterator::rev
Reverse(seq) == [i \in 1..Len(seq) |-> seq[Len(seq) + 1 - i]]

\* The state as a record, with the result and the value of the call in progress.
TvsRecord ==
    [current_time |-> current_time,
     history_size |-> history_size,
     access_context |-> access_context,
     message_history |-> message_history,
     state_history |-> state_history,
     result |-> "Ok",
     value |-> <<>>]

\* TimeVersionedState::new_with_history_size
NewWithHistorySize(h) ==
    [current_time |-> Bottom,
     history_size |-> h,
     access_context |-> "Operator",
     message_history |-> EmptyMap,
     state_history |-> EmptyMap,
     result |-> "Ok",
     value |-> <<>>]

\* TimeVersionedState::set_access_context
SetAccessContext(s, c) == [s EXCEPT !.access_context = c]

\* set_current_time with insert in place of entry().or_default().
SetCurrentTime_Resets(s, t) ==
    [s EXCEPT !.current_time = t,
              !.message_history = MapInsert(s.message_history, t, <<>>),
              !.state_history = MapInsert(s.state_history, t, DefaultState)]

\* TimeVersionedState::set_current_time
SetCurrentTime(s, t) ==
    [s EXCEPT !.current_time = t,
              !.message_history = EntryOrDefault(s.message_history, t, <<>>),
              !.state_history = EntryOrDefault(s.state_history, t, DefaultState)]

\* close_time without the remove(&t) after the split_off.
CloseTimeMessages_KeepsT(mh, t) == SplitOff(mh, t)

\* close_time: the messages released.
CloseTimeMessages(mh, t) == MapRemove(SplitOff(mh, t), t)

\* close_time: the key the state history is split at, as an Option.
CloseTimeSplit(s, t) ==
    IF s.history_size = 0
    THEN NextFront(SortedKeys({k \in DOMAIN s.state_history : TsLess(t, k)}))
    ELSE LET range == SortedKeys({k \in DOMAIN s.state_history : TsLeq(k, t)})
         IN NextBack(DropBack(range, s.history_size - 1))

\* TimeVersionedState::close_time
CloseTime(s, t) ==
    LET split_option == CloseTimeSplit(s, t)
    IN [s EXCEPT !.message_history = CloseTimeMessages(s.message_history, t),
                 !.state_history = IF split_option # <<>>
                                   THEN SplitOff(s.state_history, split_option[1])
                                   ELSE s.state_history]

\* TimeVersionedState::history_size
HistorySize(s) == s.history_size

\* set_history_size with the assignment ahead of the match on the context.
SetHistorySize_AssignsFirst(s, h) ==
    [s EXCEPT !.history_size = h,
              !.result = IF s.access_context = "Operator" THEN "Ok" ELSE "AccessError"]

\* TimeVersionedState::set_history_size
SetHistorySize(s, h) ==
    IF s.access_context = "Operator"
    THEN [s EXCEPT !.history_size = h]
    ELSE [s EXCEPT !.result = "AccessError"]

\* TimeVersionedState::set_initial_state
SetInitialState(s, initial_state) ==
    IF s.access_context = "Operator"
    THEN [s EXCEPT !.state_history = MapInsert(s.state_history, Bottom, initial_state)]
    ELSE [s EXCEPT !.result = "AccessError"]

\* append with the data put at the front of the vector.
TvsAppend_Prepends(s, data) ==
    IF s.access_context = "Callback"
    THEN IF s.current_time \in DOMAIN s.message_history
         THEN [s EXCEPT !.message_history[s.current_time] = <<data>> \o @]
         ELSE [s EXCEPT !.result = "Panic"]
    ELSE [s EXCEPT !.result = "AccessError"]

\* TimeVersionedState::append
TvsAppend(s, data) ==
    IF s.access_context = "Callback"
    THEN IF s.current_time \in DOMAIN s.message_history
         THEN [s EXCEPT !.message_history[s.current_time] = Append(@, data)]
         ELSE [s EXCEPT !.result = "Panic"]
    ELSE [s EXCEPT !.result = "AccessError"]

\* get_current_messages open to every callback, not to watermark callbacks only.
GetCurrentMessages_AnyCallback(s) ==
    IF s.access_context \in {"WatermarkCallback", "Callback"}
    THEN IF s.current_time \in DOMAIN s.message_history
         THEN [s EXCEPT !.value = s.message_history[s.current_time]]
         ELSE [s EXCEPT !.result = "Panic"]
    ELSE [s EXCEPT !.result = "AccessError"]

\* TimeVersionedState::get_current_messages
GetCurrentMessages(s) ==
    IF s.access_context = "WatermarkCallback"
    THEN IF s.current_time \in DOMAIN s.message_history
         THEN [s EXCEPT !.value = s.message_history[s.current_time]]
         ELSE [s EXCEPT !.result = "Panic"]
    ELSE [s EXCEPT !.result = "AccessError"]

\* get_state with the test t < current_time in place of t <= current_time.
GetState_StrictlyBefore(s, t) ==
    IF s.access_context = "WatermarkCallback"
    THEN IF TsLess(t, s.current_time)
         THEN LET iter == SortedKeys({k \in DOMAIN s.state_history :
                                         TsLeq(t, k) /\ TsLess(k, s.current_time)})
                  oldest_allowed_t == NextBack(DropBack(iter, HistorySize(s)))
              IN IF oldest_allowed_t # <<>>
                 THEN IF TsLeq(oldest_allowed_t[1], t)
                      THEN [s EXCEPT !.value = MapGet(s.state_history, t)]
                      ELSE s
                 ELSE [s EXCEPT !.value = MapGet(s.state_history, t)]
         ELSE s
    ELSE [s EXCEPT !.result = "AccessError"]

\* TimeVersionedState::get_state
GetState(s, t) ==
    IF s.access_context = "WatermarkCallback"
    THEN IF TsLeq(t, s.current_time)
         THEN LET iter == SortedKeys({k \in DOMAIN s.state_history :
                                         TsLeq(t, k) /\ TsLess(k, s.current_time)})
                  oldest_allowed_t == NextBack(DropBack(iter, HistorySize(s)))
              IN IF oldest_allowed_t # <<>>
                 THEN IF TsLeq(oldest_allowed_t[1], t)
                      THEN [s EXCEPT !.value = MapGet(s.state_history, t)]
                      ELSE s
                 ELSE [s EXCEPT !.value = MapGet(s.state_history, t)]
         ELSE s
    ELSE [s EXCEPT !.result = "AccessError"]

\* TimeVersionedState::get_current_state
GetCurrentState(s) ==
    IF s.access_context = "WatermarkCallback"
    THEN IF s.current_time \in DOMAIN s.state_history
         THEN [s EXCEPT !.value = <<s.state_history[s.current_time]>>]
         ELSE [s EXCEPT !.result = "Panic"]
    ELSE [s EXCEPT !.result = "AccessError"]

\* TimeVersionedState::get_current_state_mut, and the caller's write of v
\* through the reference it returns.
GetCurrentStateMut(s, v) ==
    IF s.access_context = "WatermarkCallback"
    THEN IF s.current_time \in DOMAIN s.state_history
         THEN [s EXCEPT !.state_history[s.current_time] = v,
                        !.value = <<v>>]
         ELSE [s EXCEPT !.result = "Panic"]
    ELSE [s EXCEPT !.result = "AccessError"]

\* iter_states with the filter x.0 <= history_size.
IterStates_OneMore(s) ==
    IF s.access_context = "WatermarkCallback"
    THEN LET rev == Reverse(SortedKeys({k \in DOMAIN s.state_history :
                                           TsLeq(k, s.current_time)}))
             kept == SelectSeq([i \in 1..Len(rev) |-> <<i - 1, rev[i]>>],
                               LAMBDA x : x[1] <= s.history_size)
         IN [s EXCEPT !.value = [i \in 1..Len(kept) |->
                                    <<kept[i][2], s.state_history[kept[i][2]]>>]]
    ELSE [s EXCEPT !.result = "AccessError"]

\* TimeVersionedState::iter_states: the pairs it yields, in order.
IterStates(s) ==
    IF s.access_context = "WatermarkCallback"
    THEN LET rev == Reverse(SortedKeys({k \in DOMAIN s.state_history :
                                           TsLeq(k, s.current_time)}))
             kept == SelectSeq([i \in 1..Len(rev) |-> <<i - 1, rev[i]>>],
                               LAMBDA x : x[1] < s.history_size)
         IN [s EXCEPT !.value = [i \in 1..Len(kept) |->
                                    <<kept[i][2], s.state_history[kept[i][2]]>>]]
    ELSE [s EXCEPT !.result = "AccessError"]

\* The number of messages held in the message history.
RECURSIVE SumLen(_, _)
SumLen(m, K) ==
    IF K = {}
    THEN 0
    ELSE LET k == CHOOSE x \in K : TRUE
         IN Len(m[k]) + SumLen(m, K \ {k})

StoredMsgs == SumLen(message_history, DOMAIN message_history)

\* The outcome s of a call becomes the state, and the call is recorded.
TvsStep(s, op, arg, ready) ==
    /\ current_time' = s.current_time
    /\ history_size' = s.history_size
    /\ access_context' = s.access_context
    /\ message_history' = s.message_history
    /\ state_history' = s.state_history
    /\ tvs_call' = [op |-> op, arg |-> arg, result |-> s.result, value |-> s.value]
    /\ time_is_set' = ready
    /\ UNCHANGED <<ws_vars, codec_vars, graph_vars>>

TvsCommit(s, op, arg, ready) ==
    /\ TvsStep(s, op, arg, ready)
    /\ UNCHANGED <<tracked, appended, written>>

\* A state as TimeVersionedState::new_with_history_size(h) leaves it.
TvsFresh(h) ==
    /\ LET s == NewWithHistorySize(h)
       IN /\ current_time = s.current_time
          /\ history_size = s.history_size
          /\ access_context = s.access_context
          /\ message_history = s.message_history
          /\ state_history = s.state_history
    /\ tvs_call = [op |-> "new", arg |-> <<h>>, result |-> "Ok", value |-> <<>>]
    /\ time_is_set = FALSE
    /\ tracked = {}
    /\ appended = [k \in TvsTimes |-> <<>>]
    /\ written = [k \in TvsTimes |-> <<>>]

DoSetAccessContext ==
    \E c \in AccessContexts :
        TvsCommit(SetAccessContext(TvsRecord, c), "set_access_context", <<c>>, time_is_set)

DoSetCurrentTime ==
    \E t \in TvsTimes :
        TvsCommit(SetCurrentTime(TvsRecord, t), "set_current_time", <<t>>, TRUE)

DoCloseTime ==
    \E t \in TvsTimes :
        TvsCommit(CloseTime(TvsRecord, t), "close_time", <<t>>,
                  time_is_set /\ TsLess(t, current_time))

DoSetHistorySize ==
    \E h \in 0..MaxHistory :
        TvsCommit(SetHistorySize(TvsRecord, h), "set_history_size", <<h>>, time_is_set)

DoSetInitialState ==
    \E v \in StateVals :
        TvsCommit(SetInitialState(TvsRecord, v), "set_initial_state", <<v>>, time_is_set)

DoAppend ==
    /\ StoredMsgs < MaxMsgs
    /\ \E d \in DataVals :
        TvsCommit(TvsAppend(TvsRecord, d), "append", <<d>>, time_is_set)

DoGetCurrentMessages ==
    TvsCommit(GetCurrentMessages(TvsRecord), "get_current_messages", <<>>, time_is_set)

DoGetState ==
    \E t \in TvsTimes :
        TvsCommit(GetState(TvsRecord, t), "get_state", <<t>>, time_is_set)

DoGetCurrentState ==
    TvsCommit(GetCurrentState(TvsRecord), "get_current_state", <<>>, time_is_set)

DoGetCurrentStateMut ==
    \E v \in StateVals :
        TvsCommit(GetCurrentStateMut(TvsRecord, v), "get_current_state_mut", <<v>>, time_is_set)

DoIterStates ==
    TvsCommit(IterStates(TvsRecord), "iter_states", <<>>, time_is_set)

TvsNext ==
    \/ DoSetAccessContext
    \/ DoSetCurrentTime
    \/ DoCloseTime
    \/ DoSetHistorySize
    \/ DoSetInitialState
    \/ DoAppend
    \/ DoGetCurrentMessages
    \/ DoGetState
    \/ DoGetCurrentState
    \/ DoGetCurrentStateMut
    \/ DoIterStates

\* The runtime's calls around the callbacks of an operator, with the record
\* of what was appended and written at each timestamp since set_current_time
\* created its entries.

CbSetAccessContext ==
    \E c \in {"Callback", "WatermarkCallback"} :
        /\ TvsStep(SetAccessContext(TvsRecord, c), "set_access_context", <<c>>, time_is_set)
        /\ UNCHANGED <<tracked, appended, written>>

CbSetCurrentTime ==
    \E t \in TvsTimes :
        /\ TvsStep(SetCurrentTime(TvsRecord, t), "set_current_time", <<t>>, TRUE)
        /\ tracked' = IF t \in DOMAIN message_history \cup DOMAIN state_history
                      THEN tracked
                      ELSE tracked \cup {t}
        /\ UNCHANGED <<appended, written>>

CbCloseTime ==
    \E t \in TvsTimes :
        /\ TvsStep(CloseTime(TvsRecord, t), "close_time", <<t>>,
                   time_is_set /\ TsLess(t, current_time))
        /\ tracked' = tracked \cap DOMAIN message_history' \cap DOMAIN state_history'
        /\ appended' = [k \in TvsTimes |-> IF k \in tracked' THEN appended[k] ELSE <<>>]
        /\ written' = [k \in TvsTimes |-> IF k \in tracked' THEN written[k] ELSE <<>>]

CbAppend ==
    /\ StoredMsgs < MaxMsgs
    /\ \E d \in DataVals :
        LET s == TvsAppend(TvsRecord, d)
        IN /\ TvsStep(s, "append", <<d>>, time_is_set)
           /\ appended' = IF s.result = "Ok" /\ current_time \in tracked
                          THEN [appended EXCEPT ![current_time] = Append(@, d)]
                          ELSE appended
           /\ UNCHANGED <<tracked, written>>

CbGetCurrentMessages ==
    /\ TvsStep(GetCurrentMessages(TvsRecord), "get_current_messages", <<>>, time_is_set)
    /\ UNCHANGED <<tracked, appended, written>>

CbGetCurrentState ==
    /\ TvsStep(GetCurrentState(TvsRecord), "get_current_state", <<>>, time_is_set)
    /\ UNCHANGED <<tracked, appended, written>>

CbGetCurrentStateMut ==
    \E v \in StateVals :
        LET s == GetCurrentStateMut(TvsRecord, v)
        IN /\ TvsStep(s, "get_current_state_mut", <<v>>, time_is_set)
           /\ written' = IF s.result = "Ok" /\ current_time \in tracked
                         THEN [written EXCEPT ![current_time] = <<v>>]
                         ELSE written
           /\ UNCHANGED <<tracked, appended>>

CbNext ==
    \/ CbSetAccessContext
    \/ CbSetCurrentTime
    \/ CbCloseTime
    \/ CbAppend
    \/ CbGetCurrentMessages
    \/ CbGetCurrentState
    \/ CbGetCurrentStateMut

\* ------------------------------------------------------------ message codec

\* const HEADER_SIZE
HEADER_SIZE == 8

\* Bytes range over 0..MaxByte.
MaxByte == 2
\* At most MaxFrames frames are written to the wire.
MaxFrames == 2

Bytes == 0..MaxByte

\* The values of MessageMetadata.
Metadatas == 1..MaxByte

\* bincode::serialize(&metadata): m bytes, each of value m.
BincodeSerialize(m) == [i \in 1..m |-> m]

\* bincode::deserialize(&metadata_bytes), as an Option: <<>> is the error.
BincodeDeserialize(bytes) ==
    IF \E m \in Metadatas : BincodeSerialize(m) = bytes
    THEN <<CHOOSE m \in Metadatas : BincodeSerialize(m) = bytes>>
    ELSE <<>>

\* The payloads of deserialized messages: none or one value.
CodecPayloads == {<<>>, <<0>>}

\* data.encode(): one byte per value.
DataEncode(p) == [i \in 1..Len(p) |-> p[i] + 1]

\* InterProcessMessage::Deserialized
Deserialized(m, p) == [kind |-> "Deserialized", metadata |-> m, data |-> p]

\* InterProcessMessage::Serialized
Serialized(m, b) == [kind |-> "Serialized", metadata |-> m, bytes |-> b]

DeserializedMessages == {Deserialized(m, p) : m \in Metadatas, p \in CodecPayloads}

SerializedMessages == {Serialized(m, DataEncode(p)) : m \in Metadatas, p \in CodecPayloads}

\* NetworkEndian::read_u32 with the bytes the other way round.
ReadU32_LittleEndian(bytes) ==
    bytes[4] * 16777216 + bytes[3] * 65536 + bytes[2] * 256 + bytes[1]

\* NetworkEndian::read_u32
ReadU32(bytes) ==
    bytes[1] * 16777216 + bytes[2] * 65536 + bytes[3] * 256 + bytes[4]

\* write_u32::<NetworkEndian>; the lengths written are far below 2^32, so the
\* cast `as u32` before it changes nothing.
WriteU32(n) ==
    <<(n \div 16777216) % 256, (n \div 65536) % 256, (n \div 256) % 256, n % 256>>

\* BytesMut::split_to(at), for at <= len: the bytes taken and the bytes left.
SplitTo(b, at) == [head |-> SubSeq(b, 1, at), tail |-> SubSeq(b, at + 1, Len(b))]

\* DecodeStatus::Header
HeaderStatus == [state |-> "Header"]

\* The status after a header whose two sizes are taken the wrong way round.
MetadataStatus_SwapsSizes(m, d) ==
    [state |-> "Metadata", metadata_size |-> d, data_size |-> m]

\* DecodeStatus::Metadata
MetadataStatus(m, d) == [state |-> "Metadata", metadata_size |-> m, data_size |-> d]

\* DecodeStatus::Data
DataStatus(d) == [state |-> "Data", data_size |-> d]

\* The codec as a record, with the buffer it is called on and the result and
\* the value of the call in progress.
CodecRecord ==
    [status |-> status, msg_metadata |-> msg_metadata, buf |-> buf,
     result |-> "Ok", value |-> <<>>]

\* MessageCodec::new
NewCodec ==
    [status |-> HeaderStatus, msg_metadata |-> <<>>, buf |-> <<>>,
     result |-> "Ok", value |-> <<>>]

\* Ok(None) that forgets the frame in progress.
NoProgress_ResetsStatus(c, b) ==
    [c EXCEPT !.status = HeaderStatus, !.msg_metadata = <<>>, !.buf = b]

\* Ok(None) that discards the bytes buffered.
NoProgress_DropsBytes(c, b) == [c EXCEPT !.buf = <<>>]

\* decode: the branches that return Ok(None).
NoProgress(c, b) == [c EXCEPT !.buf = b]

\* MessageCodec::decode on the buffer b.
RECURSIVE Decode(_, _)
Decode(c, b) ==
    CASE c.status.state = "Header" ->
            IF Len(b) >= HEADER_SIZE
            THEN LET header == SplitTo(b, HEADER_SIZE)
                     metadata_size == ReadU32(SubSeq(header.head, 1, 4))
                     data_size == ReadU32(SubSeq(header.head, 5, 8))
                 IN Decode([c EXCEPT !.status = MetadataStatus(metadata_size, data_size)],
                           header.tail)
            ELSE NoProgress(c, b)
      [] c.status.state = "Metadata" ->
            IF Len(b) >= c.status.metadata_size
            THEN LET split == SplitTo(b, c.status.metadata_size)
                     metadata == BincodeDeserialize(split.head)
                 IN IF metadata = <<>>
                    THEN [c EXCEPT !.buf = split.tail, !.result = "BincodeError"]
                    ELSE Decode([c EXCEPT !.msg_metadata = metadata,
                                          !.status = DataStatus(c.status.data_size)],
                                split.tail)
            ELSE NoProgress(c, b)
      [] c.status.state = "Data" ->
            IF Len(b) >= c.status.data_size
            THEN LET split == SplitTo(b, c.status.data_size)
                 IN IF c.msg_metadata = <<>>
                    THEN [c EXCEPT !.buf = split.tail, !.status = HeaderStatus,
                                   !.result = "Panic"]
                    ELSE [c EXCEPT !.buf = split.tail,
                                   !.status = HeaderStatus,
                                   !.msg_metadata = <<>>,
                                   !.value = <<Serialized(c.msg_metadata[1], split.head)>>]
            ELSE NoProgress(c, b)

\* The frame encode writes for a deserialized message.
Frame(metadata_serialized, data_serialized) ==
    WriteU32(Len(metadata_serialized)) \o WriteU32(Len(data_serialized))
        \o metadata_serialized \o data_serialized

\* MessageCodec::encode into the buffer b: the buffer after it and the result.
Encode(msg, b) ==
    IF msg.kind = "Serialized"
    THEN [buf |-> b, result |-> "Panic"]
    ELSE [buf |-> b \o Frame(BincodeSerialize(msg.metadata), DataEncode(msg.data)),
          result |-> "Ok"]

\* The messages decode returns, called on b until it returns none or an error.
RECURSIVE DecodeAll(_, _)
DecodeAll(c, b) ==
    LET r == Decode(c, b)
    IN IF r.result # "Ok" \/ r.value = <<>>
       THEN <<>>
       ELSE r.value \o DecodeAll([r EXCEPT !.value = <<>>], r.buf)

\* The last decode returned none, or no decode was made since the last bytes
\* came in: the owner of the codec reads more bytes only then.
Drained == codec_call.op # "decode" \/ codec_call.value = <<>>

\* The number of buffered bytes decode needs to leave a state.
Required(st) ==
    CASE st.state = "Header" -> HEADER_SIZE
      [] st.state = "Metadata" -> st.metadata_size
      [] st.state = "Data" -> st.data_size

\* The record of a call: its outcome, whether it was a decode short of bytes,
\* and whether it was a decode by a codec as new of all the bytes ever fed.
CodecCall(op, kind, c) ==
    [op |-> op, kind |-> kind, result |-> c.result, value |-> c.value,
     short |-> op = "decode" /\ Len(buf) < Required(status),
     whole |-> /\ op = "decode"
               /\ status = NewCodec.status
               /\ msg_metadata = NewCodec.msg_metadata
               /\ buf = fed]

\* A codec as MessageCodec::new leaves it, with nothing on the wire.
CodecFresh ==
    /\ status = NewCodec.status
    /\ msg_metadata = NewCodec.msg_metadata
    /\ buf = <<>>
    /\ wire = <<>>
    /\ frames = <<>>
    /\ fed = <<>>
    /\ decoded = <<>>
    /\ errored = FALSE
    /\ codec_call = [op |-> "new", kind |-> "", result |-> "Ok", value |-> <<>>,
                     short |-> FALSE, whole |-> FALSE]

\* A call of encode that appends to the wire.
CodecEncode ==
    /\ Len(frames) < MaxFrames
    /\ \E msg \in DeserializedMessages \cup SerializedMessages :
        LET r == Encode(msg, wire)
        IN /\ wire' = r.buf
           /\ frames' = IF r.result = "Ok" THEN Append(frames, TRUE) ELSE frames
           /\ codec_call' = CodecCall("encode", msg.kind, [result |-> r.result, value |-> <<>>])
           /\ UNCHANGED <<status, msg_metadata, buf, fed, decoded, errored>>
    /\ UNCHANGED <<ws_vars, tvs_vars, graph_vars>>

\* The peer writes a frame whose metadata is one byte that is no metadata,
\* with a payload of one byte.
WriteMalformed ==
    /\ Len(frames) < MaxFrames
    /\ \E b \in Bytes :
        /\ BincodeDeserialize(<<b>>) = <<>>
        /\ wire' = wire \o Frame(<<b>>, DataEncode(<<0>>))
        /\ frames' = Append(frames, FALSE)
        /\ codec_call' = CodecCall("write", "", [result |-> "Ok", value |-> <<>>])
        /\ UNCHANGED <<status, msg_metadata, buf, fed, decoded, errored>>
    /\ UNCHANGED <<ws_vars, tvs_vars, graph_vars>>

\* The next k bytes of the wire are appended to the decoder's buffer.
Feed ==
    /\ Drained
    /\ \E k \in 1..Len(wire) :
        /\ buf' = buf \o SubSeq(wire, 1, k)
        /\ fed' = fed \o SubSeq(wire, 1, k)
        /\ wire' = SubSeq(wire, k + 1, Len(wire))
        /\ codec_call' = CodecCall("feed", "", [result |-> "Ok", value |-> <<>>])
        /\ UNCHANGED <<status, msg_metadata, frames, decoded, errored>>
    /\ UNCHANGED <<ws_vars, tvs_vars, graph_vars>>

\* A call of decode on the decoder's buffer.
CodecDecode ==
    /\ LET r == Decode(CodecRecord, buf)
       IN /\ status' = r.status
          /\ msg_metadata' = r.msg_metadata
          /\ buf' = r.buf
          /\ decoded' = decoded \o r.value
          /\ errored' = (errored \/ r.result = "BincodeError")
          /\ codec_call' = CodecCall("decode", "", r)
          /\ UNCHANGED <<wire, frames, fed>>
    /\ UNCHANGED <<ws_vars, tvs_vars, graph_vars>>

CodecNext == CodecEncode \/ WriteMalformed \/ Feed \/ CodecDecode

\* The messages of the happy-path scenario: a metadata and a payload that
\* encodes to two bytes.
S1Messages == {Deserialized(m, <<a, b>>) : m \in Metadatas, a \in 0..(MaxByte - 1),
                                           b \in 0..(MaxByte - 1)}

\* A codec as MessageCodec::new leaves it, with one encoded frame on the wire.
DribbleFresh ==
    /\ status = NewCodec.status
    /\ msg_metadata = NewCodec.msg_metadata
    /\ buf = <<>>
    /\ \E msg \in S1Messages : wire = Encode(msg, <<>>).buf
    /\ frames = <<TRUE>>
    /\ fed = <<>>
    /\ decoded = <<>>
    /\ errored = FALSE
    /\ codec_call = [op |-> "new", kind |-> "", result |-> "Ok", value |-> <<>>,
                     short |-> FALSE, whole |-> FALSE]

\* The next byte of the wire is appended to the decoder's buffer, once decode
\* was called on the byte before.
DribbleFeed ==
    /\ codec_call.op # "feed"
    /\ wire # <<>>
    /\ buf' = Append(buf, wire[1])
    /\ fed' = Append(fed, wire[1])
    /\ wire' = Tail(wire)
    /\ codec_call' = CodecCall("feed", "", [result |-> "Ok", value |-> <<>>])
    /\ UNCHANGED <<status, msg_metadata, frames, decoded, errored>>
    /\ UNCHANGED <<ws_vars, tvs_vars, graph_vars>>

\* decode is called after each byte.
DribbleDecode ==
    /\ codec_call.op = "feed"
    /\ CodecDecode

DribbleNext == DribbleFeed \/ DribbleDecode

\* ------------------------------------------------------------ default graph

Threads == 1..MaxThreads

Ids == 1..MaxIds

\* Graph::new(): no operator, no stream, no alias.
NewGraph == [operators |-> {}, streams |-> {}, aliases |-> {}]

Graphs == [operators : SUBSET Ids, streams : SUBSET Ids, aliases : SUBSET (Ids \X Ids)]

\* Graph::add_operator
GraphAddOperator(g, id) == [g EXCEPT !.operators = @ \cup {id}]

\* Graph::add_operator_stream, add_ingest_stream, add_extract_stream, add_loop_stream
GraphAddStream(g, id) == [g EXCEPT !.streams = @ \cup {id}]

\* Graph::add_stream_alias
GraphAddStreamAlias(g, from_id, to_id) == [g EXCEPT !.aliases = @ \cup {<<from_id, to_id>>}]

NoGraphCall == [op |-> "none", thread |-> 0, returned |-> NewGraph, overwritten |-> NewGraph]

\* static ref DEFAULT_GRAPH: Mutex<Graph> = Mutex::new(Graph::new())
GraphFresh ==
    /\ default_graph = NewGraph
    /\ pc = [th \in Threads |-> "idle"]
    /\ previous_graph = [th \in Threads |-> NewGraph]
    /\ new_graph = [th \in Threads |-> NewGraph]
    /\ graph_call = NoGraphCall

\* A call that holds the lock from its start to its end and leaves g in the mutex.
Locked(th, op, g) ==
    /\ pc[th] = "idle"
    /\ default_graph' = g
    /\ graph_call' = [op |-> op, thread |-> th, returned |-> NewGraph,
                      overwritten |-> NewGraph]
    /\ UNCHANGED <<pc, previous_graph, new_graph>>
    /\ UNCHANGED <<ws_vars, tvs_vars, codec_vars>>

AddOperator(th) ==
    \E id \in Ids : Locked(th, "add_operator", GraphAddOperator(default_graph, id))

AddStream(th) ==
    \E id \in Ids : Locked(th, "add_stream", GraphAddStream(default_graph, id))

AddStreamAlias(th) ==
    \E from_id \in Ids, to_id \in Ids :
        Locked(th, "add_stream_alias", GraphAddStreamAlias(default_graph, from_id, to_id))

\* set, its first statement: previous_graph = clone(), the lock held for the
\* clone and released at the end of the statement.
SetClone(th) ==
    \E g \in Graphs :
        /\ pc[th] = "idle"
        /\ pc' = [pc EXCEPT ![th] = "assign"]
        /\ previous_graph' = [previous_graph EXCEPT ![th] = default_graph]
        /\ new_graph' = [new_graph EXCEPT ![th] = g]
        /\ UNCHANGED <<default_graph, graph_call>>
        /\ UNCHANGED <<ws_vars, tvs_vars, codec_vars>>

\* set, its second statement and its return: the lock taken again, the graph
\* assigned, previous_graph returned.
SetAssign(th) ==
    /\ pc[th] = "assign"
    /\ default_graph' = new_graph[th]
    /\ graph_call' = [op |-> "set", thread |-> th, returned |-> previous_graph[th],
                      overwritten |-> default_graph]
    /\ pc' = [pc EXCEPT ![th] = "idle"]
    /\ previous_graph' = [previous_graph EXCEPT ![th] = NewGraph]
    /\ new_graph' = [new_graph EXCEPT ![th] = NewGraph]
    /\ UNCHANGED <<ws_vars, tvs_vars, codec_vars>>

GraphNext ==
    \E th \in Threads :
        \/ AddOperator(th)
        \/ AddStream(th)
        \/ AddStreamAlias(th)
        \/ SetClone(th)
        \/ SetAssign(th)

vars == <<ws_vars, tvs_vars, codec_vars, graph_vars>>

\* The default graph alone: the graph as lazy_static makes it, then calls from
\* the threads in any interleaving.
GraphInit == WsFresh /\ TvsFresh(0) /\ CodecFresh /\ GraphFresh

SpecGraph == GraphInit /\ [][GraphNext]_vars

\* The codec fed one frame byte by byte.
DribbleInit == WsFresh /\ TvsFresh(0) /\ GraphFresh /\ DribbleFresh

SpecDribble == DribbleInit /\ [][DribbleNext]_vars

\* The write stream alone: a stream made by WriteStream::new, then any calls.
WsInit == WsFresh /\ TvsFresh(0) /\ CodecFresh /\ GraphFresh

SpecWriteStream == WsInit /\ [][WsNext]_vars

\* The time-versioned state alone: a state made by new_with_history_size,
\* then any calls.
TvsInit == WsFresh /\ CodecFresh /\ GraphFresh /\ \E h \in 0..MaxHistory : TvsFresh(h)

SpecCallback == TvsInit /\ [][CbNext]_vars

SpecState == TvsInit /\ [][TvsNext]_vars

\* The codec alone: a codec made by MessageCodec::new on an empty wire.
CodecInit == WsFresh /\ TvsFresh(0) /\ CodecFresh /\ GraphFresh

SpecCodec == CodecInit /\ [][CodecNext]_vars

\* ------------------------------------------------------------------ claims

\* The last call made on the write stream.
LastCall == ws_log[Len(ws_log)]

\* The step is a call on the write stream.
WsCallStep == Len(ws_log') = Len(ws_log) + 1

\* The step is a call of send.
SendStep == WsCallStep /\ LastCall'.op = "send"

\* The calls of send in the log, in order.
SendCalls == SelectSeq(ws_log, LAMBDA c : c.op = "send")

\* C1: over any sequence of sends (data or watermark, accepted or rejected,
\* with or without endpoint failures) low_watermark never decreases, starting
\* from the low watermark set at construction.
C1_WatermarkMonotonic ==
    /\ low_watermark = Time(<<0>>)
    /\ [][TsLeq(low_watermark, low_watermark')]_vars

\* The low watermark has advanced, and a send was rejected and another met an
\* endpoint failure on the way.
C1_Witness ==
    /\ low_watermark = Time(<<1>>)
    /\ \E i, j \in 1..Len(ws_log) :
        /\ ws_log[i].result = "TimestampError"
        /\ ws_log[j].result = "IOError"

\* C2: on an open stream, a send of data or of a watermark with a timestamp
\* strictly below low_watermark fails with TimestampError, hands the message
\* to no endpoint and leaves low_watermark and the closed flag as they were.
C2_LateSendRejected ==
    [][(SendStep /\ ~stream_closed
            /\ TsLess(LastCall'.msg.timestamp, low_watermark))
        => /\ LastCall'.result = "TimestampError"
           /\ endpoint_rx' = endpoint_rx
           /\ "endpoint" \notin Range(LastCall'.events)
           /\ low_watermark' = low_watermark
           /\ stream_closed' = stream_closed]_vars

\* A late data message and a late watermark were both rejected on a stream
\* that had an endpoint.
C2_Witness ==
    \E i, j \in 1..Len(ws_log) :
        /\ ws_log[i].op = "send" /\ ws_log[j].op = "send"
        /\ ws_log[i].msg.kind = "TimestampedData"
        /\ ws_log[j].msg.kind = "Watermark"
        /\ ws_log[i].result = "TimestampError"
        /\ ws_log[j].result = "TimestampError"
        /\ ws_log[i].registered # {}
        /\ ws_log[j].registered # {}

\* The call at position i sent a top watermark and returned success.
TopSentAt(i) ==
    /\ ws_log[i].op = "send"
    /\ IsTopWatermark(ws_log[i].msg)
    /\ ws_log[i].result = "Ok"

\* C3: once a send of a top watermark has returned success, is_closed() is
\* true in every later state and every later send fails with Closed.
C3_CloseIsTerminal ==
    \A i \in 1..Len(ws_log) :
        TopSentAt(i)
            => /\ IsClosed
               /\ \A j \in (i + 1)..Len(ws_log) :
                    ws_log[j].op = "send" => ws_log[j].result = "Closed"

\* With an endpoint registered, a top watermark was sent and a data message
\* after it.
C3_Witness ==
    \E i \in 1..Len(ws_log) :
        /\ TopSentAt(i)
        /\ ws_log[i].registered # {}
        /\ \E j \in (i + 1)..Len(ws_log) :
            ws_log[j].op = "send" /\ ws_log[j].msg.kind = "TimestampedData"

\* C4: the stream goes from open to closed only in a send of a top watermark
\* whose fan-out succeeded.
C4_ClosedOnlyByTop ==
    [][(~stream_closed /\ stream_closed')
        => /\ SendStep
           /\ IsTopWatermark(LastCall'.msg)
           /\ LastCall'.result = "Ok"
           /\ LastCall'.failing = {}]_vars

\* The stream is closed, after a top watermark whose fan-out failed had left
\* it open.
C4_Witness ==
    /\ stream_closed
    /\ \E i \in 1..Len(ws_log) :
        /\ ws_log[i].op = "send"
        /\ IsTopWatermark(ws_log[i].msg)
        /\ ws_log[i].result = "IOError"

\* C5: a send that fails with an endpoint error leaves low_watermark as it
\* was and the stream open.
C5_EndpointErrorKeepsState ==
    [][(SendStep /\ LastCall'.result = "IOError")
        => /\ low_watermark' = low_watermark
           /\ stream_closed' = stream_closed
           /\ ~stream_closed']_vars

\* C6: on an open stream a watermark at or above low_watermark is accepted
\* and low_watermark is set to its timestamp before any endpoint is handed
\* the message; a data message at or above low_watermark is accepted and
\* leaves low_watermark as it was.
C6_AcceptedSend ==
    [][(SendStep /\ ~stream_closed
            /\ TsLeq(low_watermark, LastCall'.msg.timestamp))
        => LET c == LastCall'
               lw == {k \in 1..Len(c.events) : c.events[k] = "low_watermark"}
               ep == {k \in 1..Len(c.events) : c.events[k] = "endpoint"}
           IN /\ c.result = (IF c.failing = {} THEN "Ok" ELSE "IOError")
              /\ \A e \in c.registered \ c.failing :
                    endpoint_rx'[e] = Append(endpoint_rx[e], c.msg)
              /\ c.msg.kind = "Watermark"
                    => /\ low_watermark' = c.msg.timestamp
                       /\ Cardinality(lw) = 1
                       /\ \A k \in lw : \A j \in ep : k < j
              /\ c.msg.kind = "TimestampedData"
                    => /\ low_watermark' = low_watermark
                       /\ lw = {}]_vars

\* With an endpoint registered, a watermark equal to the low watermark and
\* then a data message equal to it were sent and handed to the endpoint.
C6_Witness ==
    /\ Len(ws_log) = 3
    /\ ws_log[1].op = "add_endpoint"
    /\ ws_log[2].msg = Watermark(Time(<<0>>))
    /\ ws_log[3].msg = TimestampedData(Time(<<0>>), 1)
    /\ ws_log[2].result = "Ok"
    /\ ws_log[3].result = "Ok"
    /\ endpoint_rx[1] = <<ws_log[2].msg, ws_log[3].msg>>

\* The messages of a sequence of calls.
MsgsOf(calls) == [i \in 1..Len(calls) |-> calls[i].msg]

\* The sends made while e was registered.
SendsWith(e) == SelectSeq(SendCalls, LAMBDA c : e \in c.registered)

\* C7 as stated: every endpoint has observed exactly the messages of the
\* sends that returned success, in order.
C7_OnlySuccessfulSendsObserved ==
    \A e \in Endpoints :
        endpoint_rx[e] = MsgsOf(SelectSeq(SendsWith(e), LAMBDA c : c.result = "Ok"))

\* Whether seq is sub with some elements dropped, none of them one of `kept`
\* (a set of positions of seq).
FromBy(seq, kept, sub) ==
    \E K \in SUBSET (1..Len(seq)) :
        /\ kept \subseteq K
        /\ sub = MsgsOf(SelectSeq([i \in 1..Len(seq) |-> [msg |-> seq[i].msg, at |-> i]],
                                  LAMBDA x : x.at \in K))

\* C7, amended: every endpoint has observed, in send order and without
\* duplicates, the messages of all the sends that returned success while it
\* was registered and of some of the sends that returned an endpoint error;
\* it has observed no message of a send rejected as closed or as late.
C7_ObservedInSendOrder ==
    \A e \in Endpoints :
        LET passed == SelectSeq(SendsWith(e), LAMBDA c : c.result \in {"Ok", "IOError"})
            ok == {i \in 1..Len(passed) : passed[i].result = "Ok"}
        IN FromBy(passed, ok, endpoint_rx[e])

\* Two endpoints; the first has observed two messages, the second of them
\* from a send that failed at the second endpoint.
C7_Witness ==
    /\ Len(pusher.endpoints) = 2
    /\ Len(endpoint_rx[1]) = 2
    /\ Len(endpoint_rx[2]) = 1
    /\ LastCall.op = "send"
    /\ LastCall.result = "IOError"
    /\ LastCall.failing = {2}

\* C8: add_endpoint on a closed stream returns a Closed error and registers
\* nothing; on an open stream it registers the endpoint.
C8_AddEndpointOnClosed ==
    [][(WsCallStep /\ LastCall'.op = "add_endpoint")
        => IF stream_closed
           THEN LastCall'.result = "Closed" /\ pusher' = pusher
           ELSE /\ LastCall'.result = "Ok"
                /\ pusher'.endpoints = Append(pusher.endpoints, LastCall'.endpoint)]_vars

\* The operations of the state open to operators.
StateOps ==
    {"set_history_size", "set_initial_state", "append", "get_current_messages",
     "get_state", "get_current_state", "get_current_state_mut", "iter_states"}

\* The table of the operations each access context permits.
Permitted(c, op) ==
    CASE c = "Operator" -> op \in {"set_history_size", "set_initial_state"}
      [] c = "Callback" -> op = "append"
      [] c = "WatermarkCallback" ->
            op \in {"get_current_messages", "get_state", "get_current_state",
                    "get_current_state_mut", "iter_states"}

C10_CloseTimeMessages ==
    [][tvs_call'.op = "close_time"
        => LET t == tvs_call'.arg[1]
           IN /\ \A k \in DOMAIN message_history' : TsLess(t, k)
              /\ \A k \in DOMAIN message_history :
                    TsLess(t, k) => /\ k \in DOMAIN message_history'
                                    /\ message_history'[k] = message_history[k]]_vars

\* close_time([1]) has returned and the messages appended at [2] are held.
C10_Witness ==
    /\ tvs_call.op = "close_time"
    /\ tvs_call.arg = <<Time(<<1>>)>>
    /\ Time(<<2>>) \in DOMAIN message_history
    /\ Len(message_history[Time(<<2>>)]) = 2

\* The step is a call of close_time.
CloseTimeStep == tvs_call'.op = "close_time"

\* The keys of a state history that are at or below t.
KeysUpTo(sh, t) == {k \in DOMAIN sh : TsLeq(k, t)}

\* C11: after close_time(t), whatever the history size, the state history has
\* at most max(history_size, 1) keys <= t, and those retained are the most
\* recent of the keys <= t it had before the call.
C11_GcBound ==
    [][CloseTimeStep
        => LET t == tvs_call'.arg[1]
               before == KeysUpTo(state_history, t)
               after == KeysUpTo(state_history', t)
               bound == IF history_size = 0 THEN 1 ELSE history_size
           IN /\ Cardinality(after) <= bound
              /\ after \subseteq before
              /\ \A k \in before \ after : \A j \in after : TsLess(k, j)]_vars

\* C12: with history_size = 0, close_time(t) leaves no state-history entry
\* with a key <= t, whether or not an entry above t exists, and keeps the
\* entry at the next timestamp above t, if there is one, as it was.
C12_ZeroHistoryDropsAll ==
    [][(CloseTimeStep /\ history_size = 0)
        => LET t == tvs_call'.arg[1]
               above == SortedKeys({k \in DOMAIN state_history : TsLess(t, k)})
           IN /\ KeysUpTo(state_history', t) = {}
              /\ above # <<>>
                    => /\ above[1] \in DOMAIN state_history'
                       /\ state_history'[above[1]] = state_history[above[1]]]_vars

\* The state-history keys before the current time that are among the n most
\* recent of them.
RecentBefore(n) ==
    {k \in DOMAIN state_history :
        /\ TsLess(k, current_time)
        /\ Cardinality({j \in DOMAIN state_history :
                            TsLeq(k, j) /\ TsLess(j, current_time)}) <= n}

\* C13: in a watermark callback get_state(t) never fails, and returns a state
\* only if it is the one stored at t and t is the current time or one of the
\* history_size most recent keys before it (so none for t > current_time, and
\* with history_size = 0 none but for the current time).
C13_GetStateWindow ==
    (tvs_call.op = "get_state" /\ access_context = "WatermarkCallback")
        => LET t == tvs_call.arg[1]
           IN /\ tvs_call.result = "Ok"
              /\ tvs_call.value # <<>>
                    => /\ t \in DOMAIN state_history
                       /\ tvs_call.value = <<state_history[t]>>
                       /\ t = current_time \/ t \in RecentBefore(history_size)

\* C14: in a watermark callback iter_states yields min(history_size, number
\* of keys <= current_time) pairs, in strictly decreasing order of timestamp,
\* of the most recent keys <= current_time, each with the state stored at it;
\* once the current time is set and history_size > 0, the first is the current
\* time.
C14_IterationWindow ==
    (tvs_call.op = "iter_states" /\ access_context = "WatermarkCallback")
        => LET v == tvs_call.value
               keys == KeysUpTo(state_history, current_time)
               n == Cardinality(keys)
               yielded == {v[i][1] : i \in 1..Len(v)}
           IN /\ tvs_call.result = "Ok"
              /\ Len(v) = (IF history_size < n THEN history_size ELSE n)
              /\ \A i \in 1..Len(v) :
                    /\ v[i][1] \in keys
                    /\ v[i][2] = state_history[v[i][1]]
                    /\ i > 1 => TsLess(v[i][1], v[i - 1][1])
              /\ \A k \in keys \ yielded : \A j \in yielded : TsLess(k, j)
              /\ (time_is_set /\ history_size > 0)
                    => (v # <<>> /\ v[1][1] = current_time)

\* With three states held and a history size of two, iter_states has yielded
\* the current state, which was written, and the one before it.
C14_Witness ==
    /\ tvs_call.op = "iter_states"
    /\ tvs_call.result = "Ok"
    /\ time_is_set
    /\ history_size = 2
    /\ current_time = Time(<<2>>)
    /\ DOMAIN state_history = {Bottom, Time(<<1>>), Time(<<2>>)}
    /\ state_history[current_time] # DefaultState
    /\ Len(tvs_call.value) = 2

\* C20: the entry of the state history at the bottom timestamp is created
\* and altered by a successful set_initial_state only.
C20_BottomIsInitialState ==
    [][(/\ Bottom \in DOMAIN state_history'
        /\ \/ Bottom \notin DOMAIN state_history
           \/ state_history'[Bottom] # state_history[Bottom])
        => /\ tvs_call'.op = "set_initial_state"
           /\ tvs_call'.result = "Ok"]_vars

\* The step is a call of decode.
DecodeStep == codec_call'.op = "decode"

\* C15: a fresh codec called on a buffer that holds exactly the frame of a
\* deserialized message returns one serialized message with the metadata of
\* the message and the encoding of its payload, and leaves the buffer empty
\* and the decoder in the Header state.
C15_RoundTrip ==
    [][\A msg \in DeserializedMessages :
        (/\ DecodeStep
         /\ status = NewCodec.status
         /\ msg_metadata = NewCodec.msg_metadata
         /\ Encode(msg, <<>>).result = "Ok"
         /\ buf = Encode(msg, <<>>).buf)
            => /\ codec_call'.result = "Ok"
               /\ codec_call'.value = <<Serialized(msg.metadata, DataEncode(msg.data))>>
               /\ decoded' = Append(decoded, codec_call'.value[1])
               /\ buf' = <<>>
               /\ status' = HeaderStatus]_vars

\* The frame of the message with the longest metadata and a payload was fed
\* whole to a fresh codec and decoded in one call.
C15_Witness ==
    /\ codec_call.op = "decode"
    /\ codec_call.whole
    /\ fed = Encode(Deserialized(MaxByte, <<0>>), <<>>).buf
    /\ decoded = <<Serialized(MaxByte, <<1>>)>>
    /\ buf = <<>>

\* The last call was a decode that returned none.
ReturnedNone ==
    codec_call.op = "decode" /\ codec_call.result = "Ok" /\ codec_call.value = <<>>

\* C16: when only encoded frames are written, however their bytes are split
\* into chunks, the messages decoded after each chunk (calling decode until it
\* returns none) are those a fresh codec decodes from all the bytes at once.
C16_SplitTolerance ==
    (ReturnedNone /\ \A i \in 1..Len(frames) : frames[i])
        => decoded = DecodeAll(NewCodec, fed)

\* Of two encoded frames the first is decoded and the bytes fed so far end
\* inside the metadata of the second, one byte of it buffered.
C16_Witness ==
    /\ ReturnedNone
    /\ frames = <<TRUE, TRUE>>
    /\ Len(decoded) = 1
    /\ status = MetadataStatus(2, 1)
    /\ Len(buf) = 1
    /\ wire # <<>>

\* C17: once decode has returned an error for the metadata, every later call
\* of decode fails and returns no message.
C17_Poisoned ==
    [][(DecodeStep /\ errored)
        => /\ codec_call'.result # "Ok"
           /\ codec_call'.value = <<>>
           /\ decoded' = decoded]_vars

\* C18: encode of a serialized message returns an EncoderMisuse error and
\* writes nothing.
C18_EncoderMisuse ==
    [][(codec_call'.op = "encode" /\ codec_call'.kind = "Serialized")
        => /\ codec_call'.result = "EncoderMisuse"
           /\ wire' = wire]_vars

\* C19: in each of the states Header, Metadata(m, d) and Data(d), a decode
\* with fewer bytes buffered than the state needs (8, m, d) returns no
\* message, takes no byte and leaves the state, the sizes and the metadata
\* parsed so far as they were.
C19_ShortBufferNoProgress ==
    [][(DecodeStep /\ Len(buf) < Required(status))
        => /\ codec_call'.result = "Ok"
           /\ codec_call'.value = <<>>
           /\ buf' = buf
           /\ status' = status
           /\ msg_metadata' = msg_metadata
           /\ decoded' = decoded]_vars

\* decode was called in the Metadata state with one byte of two buffered, and
\* the sizes parsed from the header are still held.
C19_Witness ==
    /\ codec_call.op = "decode"
    /\ codec_call.short
    /\ status = MetadataStatus(2, 1)
    /\ Len(buf) = 1

\* The positions of an effect in the ordered effects of a call.
EventsAt(c, ev) == {k \in 1..Len(c.events) : c.events[k] = ev}

\* C21: a send rejected as closed or as late publishes no notification.
C21_RejectedSendsNotifyNothing ==
    [][(SendStep /\ LastCall'.result \in {"Closed", "TimestampError"})
        => /\ notification_tx' = notification_tx
           /\ EventsAt(LastCall', "notification") = {}]_vars

\* C22: a send that hands its message to an endpoint publishes exactly one
\* notification, SentData or SentWatermark after the kind of the message, with
\* the id of the stream and the timestamp of the message, before any endpoint
\* is handed the message.
C22_NotificationBeforeDelivery ==
    [][(SendStep /\ EventsAt(LastCall', "endpoint") # {})
        => LET c == LastCall'
               n == [type |-> IF c.msg.kind = "TimestampedData"
                              THEN "SentData" ELSE "SentWatermark",
                     id |-> StreamId,
                     timestamp |-> c.msg.timestamp]
           IN /\ notification_tx' = Append(notification_tx, n)
              /\ Cardinality(EventsAt(c, "notification")) = 1
              /\ \A k \in EventsAt(c, "notification") :
                    \A j \in EventsAt(c, "endpoint") : k < j]_vars

\* Two endpoints were handed a watermark and then a data message, and two
\* notifications are published.
C22_Witness ==
    /\ Len(notification_tx) = 2
    /\ notification_tx[1].type = "SentWatermark"
    /\ notification_tx[2].type = "SentData"
    /\ Len(endpoint_rx[1]) = 2
    /\ Len(endpoint_rx[2]) = 2

\* C23: a send on a closed stream returns Closed and changes nothing: no
\* notification, no message to any endpoint, the same low_watermark and flag.
C23_ClosedSendHasNoEffect ==
    [][(SendStep /\ stream_closed)
        => /\ LastCall'.result = "Closed"
           /\ LastCall'.events = <<>>
           /\ notification_tx' = notification_tx
           /\ endpoint_rx' = endpoint_rx
           /\ low_watermark' = low_watermark
           /\ stream_closed' = stream_closed
           /\ pusher' = pusher]_vars

\* A stream with an endpoint was closed by a top watermark and a watermark
\* was sent on it afterwards.
C23_Witness ==
    /\ Len(ws_log) = 3
    /\ ws_log[1].op = "add_endpoint"
    /\ TopSentAt(2)
    /\ ws_log[3].op = "send"
    /\ ws_log[3].msg.kind = "Watermark"
    /\ ws_log[3].was_closed

\* C24: set_current_time(t) sets current_time to t; a history without an
\* entry at t gets one (no messages, the default state), an entry already at t
\* keeps its messages and its state, the entries at all other keys stay as they
\* are, and a second set_current_time(t) right after changes nothing.
C24_SetCurrentTime ==
    [][(tvs_call'.op = "set_current_time") =>
        LET t == tvs_call'.arg[1]
        IN /\ current_time' = t
           /\ DOMAIN message_history' = DOMAIN message_history \cup {t}
           /\ DOMAIN state_history' = DOMAIN state_history \cup {t}
           /\ message_history'[t] = IF t \in DOMAIN message_history
                                    THEN message_history[t] ELSE <<>>
           /\ state_history'[t] = IF t \in DOMAIN state_history
                                  THEN state_history[t] ELSE DefaultState
           /\ \A k \in DOMAIN message_history \ {t} :
                  message_history'[k] = message_history[k]
           /\ \A k \in DOMAIN state_history \ {t} :
                  state_history'[k] = state_history[k]
           /\ history_size' = history_size
           /\ access_context' = access_context
           /\ SetCurrentTime(TvsRecord', t) = TvsRecord']_vars

\* The time was set back to a timestamp that holds a message and a written
\* state, with entries at another timestamp beside it.
C24_Witness ==
    /\ tvs_call.op = "set_current_time"
    /\ message_history[current_time] # <<>>
    /\ state_history[current_time] # DefaultState
    /\ \E k \in DOMAIN state_history : TsLess(current_time, k)
    /\ \E k \in DOMAIN message_history : TsLess(current_time, k)

\* C25: an operation that returns an access error leaves the store as it was:
\* history_size, both histories, current_time and the access context.
C25_RejectedLeavesStore ==
    [][(tvs_call'.result = "AccessError") =>
        /\ history_size' = history_size
        /\ state_history' = state_history
        /\ message_history' = message_history
        /\ current_time' = current_time
        /\ access_context' = access_context]_vars

\* A set_history_size with a size other than the present one was rejected in a
\* callback, with a message in the store.
C25_Witness ==
    /\ tvs_call.op = "set_history_size"
    /\ tvs_call.result = "AccessError"
    /\ tvs_call.arg[1] # history_size
    /\ access_context = "Callback"
    /\ StoredMsgs > 0

C27_CurrentEntryFound ==
    [][(/\ access_context = "WatermarkCallback"
        /\ current_time \in tracked
        /\ tvs_call'.op \in {"get_current_state", "get_current_state_mut",
                              "get_current_messages"}) =>
        /\ tvs_call'.result = "Ok"
        /\ (tvs_call'.op = "get_current_state") =>
               tvs_call'.value = IF written[current_time] = <<>>
                                 THEN <<DefaultState>>
                                 ELSE written[current_time]
        /\ (tvs_call'.op = "get_current_state_mut") =>
               state_history'[current_time] = tvs_call'.arg[1]
        /\ (tvs_call'.op = "get_current_messages") =>
               tvs_call'.value = appended[current_time]]_vars

\* A watermark callback reads two different messages in the order they were
\* appended, at a timestamp where a state was written, after a close_time
\* released an earlier timestamp whose state was written too.
C27_Witness ==
    /\ access_context = "WatermarkCallback"
    /\ current_time \in tracked
    /\ tvs_call.op = "get_current_messages"
    /\ Len(tvs_call.value) = 2
    /\ tvs_call.value[1] > tvs_call.value[2]
    /\ written[current_time] # <<>>
    /\ written[current_time][1] # DefaultState
    /\ \E k \in TvsTimes : TsLess(k, current_time) /\ k \notin DOMAIN state_history

\* C28: the graph a call of set returns is the graph its assignment
\* overwrote, whatever the other threads call in between.
C28_SetReturnsOverwritten ==
    (graph_call.op = "set") => graph_call.returned = graph_call.overwritten

\* The frame being fed: the bytes fed so far and the bytes still on the wire.
DribbleFrame == fed \o wire

\* M, the number of metadata bytes of the frame being fed.
DribbleM == ReadU32(SubSeq(DribbleFrame, 1, 4))

\* C29: with the frame fed one byte at a time, decode returns no message on
\* the first 7 + (M + 1) feeds and the message on the feed after them.
C29_DribbleCount ==
    (codec_call.op = "decode") =>
        /\ codec_call.result = "Ok"
        /\ (codec_call.value = <<>>) <=> (Len(fed) <= 7 + (DribbleM + 1))

\* C29 as amended: with the frame fed one byte at a time, decode returns no
\* message on the first 7 + (M + 2) feeds, which are all the bytes of the frame
\* but the last, and on the last byte it returns the message of the frame.
C29_DribbleLastByte ==
    (codec_call.op = "decode") =>
        /\ codec_call.result = "Ok"
        /\ (codec_call.value = <<>>) <=> (Len(fed) <= 7 + (DribbleM + 2))
        /\ (codec_call.value = <<>>) <=> (wire # <<>>)
        /\ (codec_call.value # <<>>) =>
               /\ Len(fed) = HEADER_SIZE + DribbleM + 2
               /\ \E msg \in S1Messages :
                      /\ fed = Encode(msg, <<>>).buf
                      /\ codec_call.value =
                             <<Serialized(msg.metadata, DataEncode(msg.data))>>
                      /\ decoded = codec_call.value

\* The last byte of a frame with two metadata bytes and two different
\* payload bytes was fed, and decode returned its message.
C29_Witness ==
    /\ codec_call.op = "decode"
    /\ wire = <<>>
    /\ Len(fed) = HEADER_SIZE + 2 + 2
    /\ Len(decoded) = 1
    /\ decoded[1].metadata = 2
    /\ decoded[1].bytes[1] # decoded[1].bytes[2]

\* C30: the stream is closed exactly when it has no pusher, and a closed
\* stream has the top timestamp as low_watermark.
C30_ClosedIffNoPusher ==
    /\ stream_closed <=> ~pusher.present
    /\ stream_closed => low_watermark = Top

\* A stream with two endpoints was closed after a top watermark had failed
\* at an endpoint.
C30_Witness ==
    /\ stream_closed
    /\ ~pusher.present
    /\ NumCalls("add_endpoint") = 2
    /\ \E i \in 1..Len(ws_log) :
        /\ IsTopWatermark(ws_log[i].msg)
        /\ ws_log[i].result = "IOError"

====
